---- MODULE Spec2Model ----
(***************************************************************************)
(* Model of the SSH key controller of syndeos                              *)
(* (src-tauri/src/controllers/ssh_key.rs) and of the command registration  *)
(* in src-tauri/src/lib.rs.                                                *)
(*                                                                         *)
(* The shared state is the ssh_keys table and the file system.  Every      *)
(* command is a small process that runs one SQL statement, one file system *)
(* call or one step of the ssh-keygen subprocess at a time.  Spec lets the  *)
(* commands of the slots interleave at that granularity; SeqSpec runs the  *)
(* commands one after the other.                                           *)
(***************************************************************************)
EXTENDS Integers, Sequences, FiniteSets

(* ------------------------------ bounds --------------------------------- *)

\* largest rowid the table hands out
MaxRowid == 2
\* largest value of the wall clock
MaxTime == 0

\* command slots: the commands that can be in flight together
Procs == {1, 2}
\* the slot sequential runs use
SeqProc == CHOOSE p \in Procs : \A q \in Procs : p <= q
\* ids callers pass
Ids == 1..MaxRowid

(* ------------------------------ paths ---------------------------------- *)
(* A path or a name is a sequence of characters; "/" is the separator and   *)
(* "h", ".ssh", ".pub" stand for the literal strings of the same spelling.  *)

\* dirs::home_dir(), when it resolves
HomeDir == <<"/", "h">>

\* Path::is_absolute on unix
IsAbsolute(s) == Len(s) > 0 /\ s[1] = "/"

\* PathBuf::join: an absolute argument replaces the base, otherwise a
\* separator is added unless the base already ends in one
PathJoin(base, s) ==
    IF IsAbsolute(s) THEN s
    ELSE IF Len(base) > 0 /\ base[Len(base)] # "/" THEN base \o <<"/">> \o s
    ELSE base \o s

\* home_dir.join(".ssh")
SshDir == PathJoin(HomeDir, <<".ssh">>)

\* (variant: the name is used as the path, without the join)
KeyPathBare(name) == name

\* ssh_dir.join(format!("{}", name)), as a string
KeyPath(name) == PathJoin(SshDir, name)

\* format!("{}.pub", file_path)
PubPath(file_path) == file_path \o <<".pub">>

\* key names callers pass to generate_ssh_key: a relative and an absolute one
Names == {<<"a">>, <<"/", "a">>}

\* key names and paths callers pass to add_ssh_key
AddNames == {<<"a">>}
AddPaths == {KeyPath(<<"a">>)}

\* files that may already be on disk when the application starts
InitFiles == {KeyPath(<<"a">>)}

(* ------------------------------ table ---------------------------------- *)

\* a row of ssh_keys
SshKey(id, name, path, is_default, created_at, updated_at) ==
    [id |-> id, name |-> name, path |-> path, is_default |-> is_default,
     created_at |-> created_at, updated_at |-> updated_at]

RowIds(ks) == {r.id : r \in ks}

MaxOf(S) == IF S = {} THEN 0 ELSE CHOOSE m \in S : \A x \in S : x <= m

\* the rowids SQLite may give the next row: one more than the largest rowid
\* in the table, or (AUTOINCREMENT) one more than the largest ever used
NextRowids(ks, h) == {MaxOf(RowIds(ks)) + 1, h + 1}

\* (variant: the UPDATE is left out)
ClearDefaultsKeep(ks) == ks

\* UPDATE ssh_keys SET is_default = 0 WHERE is_default = 1
ClearDefaults(ks) == {[r EXCEPT !.is_default = FALSE] : r \in ks}

\* UPDATE ssh_keys SET is_default = 1 WHERE id = ?1
SetDefaultRow(ks, id) ==
    {IF r.id = id THEN [r EXCEPT !.is_default = TRUE] ELSE r : r \in ks}

\* INSERT INTO ssh_keys (name, path, is_default, created_at, updated_at)
InsertRow(ks, id, name, path, is_default, now) ==
    ks \cup {SshKey(id, name, path, is_default, now, now)}

\* (variant: the WHERE clause is left out)
SelectPathAny(ks, id) == {r.path : r \in ks}

\* SELECT path FROM ssh_keys WHERE id = ?1
SelectPath(ks, id) == {r.path : r \in {x \in ks : x.id = id}}

\* SELECT ... FROM ssh_keys WHERE id = ?1
SelectRow(ks, id) == {r \in ks : r.id = id}

\* DELETE FROM ssh_keys WHERE id = ?1
DeleteRows(ks, id) == {r \in ks : r.id # id}

Defaults(ks) == {r \in ks : r.is_default}

(* --------------------------- command dispatch --------------------------- *)

\* the SSH key operations of the controller
SshKeyCommands ==
    {"add_ssh_key", "get_ssh_key", "get_ssh_keys", "set_default_ssh_key",
     "delete_ssh_key", "generate_ssh_key"}

\* the SSH key commands listed in tauri::generate_handler!
InvokeHandler ==
    {"add_ssh_key", "get_ssh_key", "set_default_ssh_key", "generate_ssh_key"}

(* ------------------------------ state ----------------------------------- *)

VARIABLES
    keys,      \* the rows of ssh_keys
    hwm,       \* largest rowid ever assigned
    files,     \* paths of the files on disk
    ssh_dir,   \* whether <home>/.ssh exists
    clock,     \* chrono::Local::now() when it was last read
    pc,        \* pc[p]: where command slot p is
    req,       \* req[p]: the command and its arguments
    loc,       \* loc[p]: the command's local variables and what it did
    result,    \* result[p]: what the command returned
    pre        \* pre[p]: table and files when the command started
               \* (recorded in sequential runs)

vars == <<keys, hwm, files, ssh_dir, clock, pc, req, loc, result, pre>>

NoReq ==
    [cmd |-> "none", via |-> "none", name |-> <<>>, path |-> <<>>, is_default |-> FALSE,
     id |-> 0, delete_file |-> FALSE]

NoLoc ==
    [now |-> 0, has_path |-> FALSE, path |-> <<>>, keygen_ok |-> FALSE,
     row_deleted |-> FALSE, file_removed |-> FALSE, pub |-> "none"]

NoResult == [ok |-> FALSE, err |-> "none", id |-> 0, path |-> <<>>, rows |-> {}]

NoPre == [keys |-> {}, files |-> {}]

Ok == [NoResult EXCEPT !.ok = TRUE]
OkId(id) == [Ok EXCEPT !.id = id]
OkPath(path) == [Ok EXCEPT !.path = path]
OkRows(rows) == [Ok EXCEPT !.rows = rows]
Err(e) == [NoResult EXCEPT !.err = e]

Init ==
    /\ keys = {}
    /\ hwm = 0
    /\ files \in SUBSET InitFiles
    /\ ssh_dir \in {b \in BOOLEAN : files # {} => b}
    /\ clock = 0
    /\ pc = [p \in Procs |-> "idle"]
    /\ req = [p \in Procs |-> NoReq]
    /\ loc = [p \in Procs |-> NoLoc]
    /\ result = [p \in Procs |-> NoResult]
    /\ pre = [p \in Procs |-> NoPre]

(* ------------------------------ requests -------------------------------- *)

Request(cmd, via, name, path, is_default, id, delete_file) ==
    [cmd |-> cmd, via |-> via, name |-> name, path |-> path,
     is_default |-> is_default, id |-> id, delete_file |-> delete_file]

\* the arguments a caller may pass to each command
RequestsOf(cmd, via) ==
    CASE cmd = "add_ssh_key" ->
           {Request(cmd, via, n, f, d, 0, FALSE) :
                n \in AddNames, f \in AddPaths, d \in BOOLEAN}
      [] cmd = "get_ssh_key" ->
           {Request(cmd, via, <<>>, <<>>, FALSE, i, FALSE) : i \in Ids}
      [] cmd = "get_ssh_keys" ->
           {Request(cmd, via, <<>>, <<>>, FALSE, 0, FALSE)}
      [] cmd = "set_default_ssh_key" ->
           {Request(cmd, via, <<>>, <<>>, FALSE, i, FALSE) : i \in Ids}
      [] cmd = "delete_ssh_key" ->
           {Request(cmd, via, <<>>, <<>>, FALSE, i, d) :
                i \in Ids, d \in BOOLEAN}
      [] cmd = "generate_ssh_key" ->
           {Request(cmd, via, n, <<>>, FALSE, 0, FALSE) : n \in Names}

\* the first step of each command
Entry(cmd) ==
    CASE cmd = "add_ssh_key" -> "add_enter"
      [] cmd = "get_ssh_key" -> "get_key"
      [] cmd = "get_ssh_keys" -> "get_keys"
      [] cmd = "set_default_ssh_key" -> "sd_enter"
      [] cmd = "delete_ssh_key" -> "del_enter"
      [] cmd = "generate_ssh_key" -> "gen_setup"

Snapshot == [keys |-> keys, files |-> files]

\* the command in slot p returns res
Finish(p, res) ==
    /\ pc' = [pc EXCEPT ![p] = "done"]
    /\ result' = [result EXCEPT ![p] = res]

\* the command in slot p moves on to step next
Goto(p, next) ==
    /\ pc' = [pc EXCEPT ![p] = next]
    /\ UNCHANGED result

(* --------------------------- command dispatch --------------------------- *)

\* an external caller invokes a command through the invoke handler: a
\* registered command starts, any other name is rejected
Invoke(p, r, snap) ==
    /\ pc[p] = "idle"
    /\ req' = [req EXCEPT ![p] = r]
    /\ pre' = [pre EXCEPT ![p] = snap]
    /\ \/ /\ r.cmd \in InvokeHandler
          /\ Goto(p, Entry(r.cmd))
       \/ /\ r.cmd \notin InvokeHandler
          /\ Finish(p, Err("command_not_found"))
    /\ UNCHANGED <<keys, hwm, files, ssh_dir, clock, loc>>

\* Rust code calls a controller function that is not registered
DirectCall(p, r, snap) ==
    /\ pc[p] = "idle"
    /\ req' = [req EXCEPT ![p] = r]
    /\ pre' = [pre EXCEPT ![p] = snap]
    /\ Goto(p, Entry(r.cmd))
    /\ UNCHANGED <<keys, hwm, files, ssh_dir, clock, loc>>

\* the caller has read the result; the slot is free again
Return(p) ==
    /\ pc[p] = "done"
    /\ pc' = [pc EXCEPT ![p] = "idle"]
    /\ req' = [req EXCEPT ![p] = NoReq]
    /\ loc' = [loc EXCEPT ![p] = NoLoc]
    /\ result' = [result EXCEPT ![p] = NoResult]
    /\ pre' = [pre EXCEPT ![p] = NoPre]
    /\ UNCHANGED <<keys, hwm, files, ssh_dir, clock>>

(* ------------------------------ add_ssh_key ----------------------------- *)

\* the arguments of the running add_ssh_key: the caller's, or those
\* generate_ssh_key passes (name, key_path_str, false)
AddPathArg(p) ==
    IF req[p].cmd = "generate_ssh_key" THEN loc[p].path ELSE req[p].path
AddDefaultArg(p) ==
    IF req[p].cmd = "generate_ssh_key" THEN FALSE ELSE req[p].is_default

\* what the command returns when add_ssh_key returns Ok(id):
\* generate_ssh_key drops the id and returns the path
AddReturn(p, id) ==
    IF req[p].cmd = "generate_ssh_key" THEN OkPath(loc[p].path) ELSE OkId(id)

\* get(&app_handle)? and chrono::Local::now(): the clock has not gone
\* back since it was last read
AddEnter(p) ==
    /\ pc[p] = "add_enter"
    /\ \/ /\ Finish(p, Err("conn"))
          /\ UNCHANGED <<loc, clock>>
       \/ \E now \in clock..MaxTime :
            /\ clock' = now
            /\ loc' = [loc EXCEPT ![p].now = now]
            /\ Goto(p, IF AddDefaultArg(p) THEN "add_clear" ELSE "add_insert")
    /\ UNCHANGED <<keys, hwm, files, ssh_dir, req, pre>>

\* if is_default { UPDATE ... SET is_default = 0 ... }
AddClear(p) ==
    /\ pc[p] = "add_clear"
    /\ \/ /\ Finish(p, Err("sql"))
          /\ UNCHANGED keys
       \/ /\ keys' = ClearDefaults(keys)
          /\ Goto(p, "add_insert")
    /\ UNCHANGED <<hwm, files, ssh_dir, clock, req, loc, pre>>

\* INSERT INTO ssh_keys ...; Ok(conn.last_insert_rowid())
AddInsert(p) ==
    /\ pc[p] = "add_insert"
    /\ \/ /\ Finish(p, Err("sql"))
          /\ UNCHANGED <<keys, hwm>>
       \/ \E id \in NextRowids(keys, hwm) :
            /\ id <= MaxRowid
            /\ keys' = InsertRow(keys, id, req[p].name, AddPathArg(p),
                                 AddDefaultArg(p), loc[p].now)
            /\ hwm' = IF id > hwm THEN id ELSE hwm
            /\ Finish(p, AddReturn(p, id))
    /\ UNCHANGED <<files, ssh_dir, clock, req, loc, pre>>

(* ------------------------ get_ssh_key, get_ssh_keys --------------------- *)

\* get(&app_handle)?; conn.query_row(SELECT ... WHERE id = ?1)
GetSshKey(p) ==
    /\ pc[p] = "get_key"
    /\ \/ Finish(p, Err("conn"))
       \/ Finish(p, Err("sql"))
       \/ /\ SelectRow(keys, req[p].id) = {}
          /\ Finish(p, Err("no_rows"))
       \/ /\ SelectRow(keys, req[p].id) # {}
          /\ Finish(p, OkRows(SelectRow(keys, req[p].id)))
    /\ UNCHANGED <<keys, hwm, files, ssh_dir, clock, req, loc, pre>>

\* get(&app_handle)?; prepare, query_map and collect every row
GetSshKeys(p) ==
    /\ pc[p] = "get_keys"
    /\ \/ Finish(p, Err("conn"))
       \/ Finish(p, Err("sql"))
       \/ Finish(p, OkRows(keys))
    /\ UNCHANGED <<keys, hwm, files, ssh_dir, clock, req, loc, pre>>

(* --------------------------- set_default_ssh_key ------------------------ *)

\* get(&app_handle)?
SetDefaultEnter(p) ==
    /\ pc[p] = "sd_enter"
    /\ \/ Finish(p, Err("conn"))
       \/ Goto(p, "sd_clear")
    /\ UNCHANGED <<keys, hwm, files, ssh_dir, clock, req, loc, pre>>

\* UPDATE ssh_keys SET is_default = 0 WHERE is_default = 1
SetDefaultClear(p) ==
    /\ pc[p] = "sd_clear"
    /\ \/ /\ Finish(p, Err("sql"))
          /\ UNCHANGED keys
       \/ /\ keys' = ClearDefaults(keys)
          /\ Goto(p, "sd_set")
    /\ UNCHANGED <<hwm, files, ssh_dir, clock, req, loc, pre>>

\* UPDATE ssh_keys SET is_default = 1 WHERE id = ?1; Ok(())
SetDefaultSet(p) ==
    /\ pc[p] = "sd_set"
    /\ \/ /\ Finish(p, Err("sql"))
          /\ UNCHANGED keys
       \/ /\ keys' = SetDefaultRow(keys, req[p].id)
          /\ Finish(p, Ok)
    /\ UNCHANGED <<hwm, files, ssh_dir, clock, req, loc, pre>>

(* ------------------------------ delete_ssh_key -------------------------- *)

\* (variant: the files are removed whatever the caller asked)
DeleteFileAlways(r) == TRUE

\* the delete_file argument, tested before the path lookup and again
\* before the file removal
DeleteFile(r) == r.delete_file

\* fs::remove_file(path): the files left when it succeeds; it cannot
\* succeed on a file that is not there
RemoveFile(fs, path) == fs \ {path}

\* (variant: a failed .pub removal is returned as an error)
DeleteReturnStrict(pub_removed) == IF pub_removed THEN Ok ELSE Err("rmpub")

\* the result of delete_ssh_key once the .pub removal was tried:
\* `let _ = fs::remove_file(pub_path)` drops the outcome
DeleteReturn(pub_removed) == Ok

\* get(&app_handle)?
DeleteEnter(p) ==
    /\ pc[p] = "del_enter"
    /\ \/ Finish(p, Err("conn"))
       \/ Goto(p, IF DeleteFile(req[p]) THEN "del_select" ELSE "del_delete")
    /\ UNCHANGED <<keys, hwm, files, ssh_dir, clock, req, loc, pre>>

\* let path = if delete_file { Some(query_row(SELECT path ...)?) }
DeleteSelect(p) ==
    /\ pc[p] = "del_select"
    /\ \/ /\ Finish(p, Err("sql"))
          /\ UNCHANGED loc
       \/ /\ SelectPath(keys, req[p].id) = {}
          /\ Finish(p, Err("no_rows"))
          /\ UNCHANGED loc
       \/ \E f \in SelectPath(keys, req[p].id) :
            /\ loc' = [loc EXCEPT ![p].has_path = TRUE, ![p].path = f]
            /\ Goto(p, "del_delete")
    /\ UNCHANGED <<keys, hwm, files, ssh_dir, clock, req, pre>>

\* DELETE FROM ssh_keys WHERE id = ?1, then
\* if let Some(file_path) = path { if delete_file { ... } }
DeleteRow(p) ==
    /\ pc[p] = "del_delete"
    /\ \/ /\ Finish(p, Err("sql"))
          /\ UNCHANGED <<keys, loc>>
       \/ /\ keys' = DeleteRows(keys, req[p].id)
          /\ loc' = [loc EXCEPT ![p].row_deleted = TRUE]
          /\ IF loc[p].has_path /\ DeleteFile(req[p])
             THEN Goto(p, "del_rmfile")
             ELSE Finish(p, Ok)
    /\ UNCHANGED <<hwm, files, ssh_dir, clock, req, pre>>

\* (variant: a failed file removal puts the row back)
DeleteRemoveFileRollback(p) ==
    /\ pc[p] = "del_rmfile"
    /\ \/ /\ Finish(p, Err("rmfile"))
          /\ keys' = keys \cup SelectRow(pre[p].keys, req[p].id)
          /\ UNCHANGED <<files, loc>>
       \/ /\ loc[p].path \in files
          /\ files' = RemoveFile(files, loc[p].path)
          /\ loc' = [loc EXCEPT ![p].file_removed = TRUE]
          /\ Goto(p, "del_rmpub")
          /\ UNCHANGED keys
    /\ UNCHANGED <<hwm, ssh_dir, clock, req, pre>>

\* if let Err(e) = fs::remove_file(&file_path) { return Err(...) }
DeleteRemoveFile(p) ==
    /\ pc[p] = "del_rmfile"
    /\ \/ /\ Finish(p, Err("rmfile"))
          /\ UNCHANGED <<files, loc>>
       \/ /\ loc[p].path \in files
          /\ files' = RemoveFile(files, loc[p].path)
          /\ loc' = [loc EXCEPT ![p].file_removed = TRUE]
          /\ Goto(p, "del_rmpub")
    /\ UNCHANGED <<keys, hwm, ssh_dir, clock, req, pre>>

\* let _ = fs::remove_file(pub_path); Ok(())
DeleteRemovePub(p) ==
    /\ pc[p] = "del_rmpub"
    /\ \/ /\ loc' = [loc EXCEPT ![p].pub = "failed"]
          /\ Finish(p, DeleteReturn(FALSE))
          /\ UNCHANGED files
       \/ /\ PubPath(loc[p].path) \in files
          /\ files' = RemoveFile(files, PubPath(loc[p].path))
          /\ loc' = [loc EXCEPT ![p].pub = "removed"]
          /\ Finish(p, DeleteReturn(TRUE))
    /\ UNCHANGED <<keys, hwm, ssh_dir, clock, req, pre>>

(* ----------------------------- generate_ssh_key ------------------------- *)

\* home_dir()?, create_dir_all and set_permissions when .ssh is missing,
\* key_path.to_str()?
GenerateSetup(p) ==
    /\ pc[p] = "gen_setup"
    /\ \/ /\ Finish(p, Err("home"))
          /\ UNCHANGED <<ssh_dir, loc>>
       \/ /\ ~ssh_dir
          /\ Finish(p, Err("mkdir"))
          /\ UNCHANGED <<ssh_dir, loc>>
       \/ /\ ~ssh_dir
          /\ ssh_dir' = TRUE
          /\ Finish(p, Err("chmod"))
          /\ UNCHANGED loc
       \/ /\ Finish(p, Err("path"))
          /\ ssh_dir' = TRUE
          /\ UNCHANGED loc
       \/ /\ ssh_dir' = TRUE
          /\ loc' = [loc EXCEPT ![p].path = KeyPath(req[p].name)]
          /\ Goto(p, "gen_keygen")
    /\ UNCHANGED <<keys, hwm, files, clock, req, pre>>

\* Command::new("ssh-keygen") ... .output(): the subprocess is spawned,
\* or the spawn fails and nothing has run ("spawn" is the error of
\* .map_err(|e| format!("Failed to execute ssh-keygen: {}", e)))
GenerateSpawn(p) ==
    /\ pc[p] = "gen_keygen"
    /\ \/ Finish(p, Err("spawn"))
       \/ Goto(p, "keygen_start")
    /\ UNCHANGED <<keys, hwm, files, ssh_dir, clock, req, loc, pre>>

\* the running ssh-keygen writes the private key file
KeygenWriteKey(p) ==
    /\ pc[p] = "keygen_start"
    /\ files' = files \cup {loc[p].path}
    /\ Goto(p, "keygen_key")
    /\ UNCHANGED <<keys, hwm, ssh_dir, clock, req, loc, pre>>

\* the running ssh-keygen comes to the .pub file, after the private key
\* file: it writes it, or goes on without it
KeygenWritePub(p) ==
    /\ pc[p] = "keygen_key"
    /\ \/ files' = files \cup {PubPath(loc[p].path)}
       \/ UNCHANGED files
    /\ Goto(p, "keygen_pub")
    /\ UNCHANGED <<keys, hwm, ssh_dir, clock, req, loc, pre>>

\* .output() returns when ssh-keygen has exited: waiting for it can fail
\* (the same "Failed to execute ssh-keygen" error as a failed spawn) with
\* whatever the subprocess has written left on disk; ssh-keygen can exit at
\* any point, with a failure or a success status, leaving what it has
\* written: the command tests the status alone and never looks for the
\* files; if !output.status.success() { return Err(..) }, then the call
\* add_ssh_key(app_handle, name, key_path_str, false)
GenerateWait(p) ==
    /\ \/ /\ pc[p] \in {"keygen_start", "keygen_key", "keygen_pub"}
          /\ Finish(p, Err("spawn"))
          /\ UNCHANGED loc
       \/ /\ pc[p] \in {"keygen_start", "keygen_key", "keygen_pub"}
          /\ Finish(p, Err("exit"))
          /\ UNCHANGED loc
       \/ /\ pc[p] \in {"keygen_start", "keygen_key", "keygen_pub"}
          /\ loc' = [loc EXCEPT ![p].keygen_ok = TRUE]
          /\ Goto(p, "add_enter")
    /\ UNCHANGED <<keys, hwm, files, ssh_dir, clock, req, pre>>

(* ---------------------------- specifications ---------------------------- *)

\* a command starts in slot p
Call(p, cmds, snap) ==
    \/ \E c \in cmds :
          \E r \in RequestsOf(c, "ipc") : Invoke(p, r, snap)
    \/ \E c \in cmds \ InvokeHandler :
          \E r \in RequestsOf(c, "direct") : DirectCall(p, r, snap)

\* the command in slot p takes its next step
Step(p) ==
    \/ AddEnter(p) \/ AddClear(p) \/ AddInsert(p)
    \/ GetSshKey(p) \/ GetSshKeys(p)
    \/ SetDefaultEnter(p) \/ SetDefaultClear(p) \/ SetDefaultSet(p)
    \/ DeleteEnter(p) \/ DeleteSelect(p) \/ DeleteRow(p)
    \/ DeleteRemoveFile(p) \/ DeleteRemovePub(p)
    \/ GenerateSetup(p) \/ GenerateSpawn(p)
    \/ KeygenWriteKey(p) \/ KeygenWritePub(p) \/ GenerateWait(p)
    \/ Return(p)

\* commands interleave statement by statement
Next == \E p \in Procs : Call(p, SshKeyCommands, NoPre) \/ Step(p)

Spec == Init /\ [][Next]_vars

\* no command is running and no result is waiting to be read
AllIdle == \A q \in Procs : pc[q] = "idle"

\* commands run one after the other
SeqNext ==
    \/ AllIdle /\ Call(SeqProc, SshKeyCommands, Snapshot)
    \/ Step(SeqProc)

SeqSpec == Init /\ [][SeqNext]_vars

(* ------------------------------ properties ------------------------------ *)

\* slot p holds the result of command cmd
Done(p, cmd) == pc[p] = "done" /\ req[p].cmd = cmd

\* slot p runs or has run command cmd as a function call that got past
\* the dispatch
Running(p, cmd) ==
    /\ pc[p] # "idle"
    /\ req[p].cmd = cmd
    /\ result[p].err # "command_not_found"

\* C1: after every set_default_ssh_key call that returns success, whatever
\* the id, exactly one row has is_default set
C1_ExactlyOneDefaultAfterSetDefault ==
    \A p \in Procs :
        Done(p, "set_default_ssh_key") /\ result[p].ok
            => Cardinality(Defaults(keys)) = 1

\* C2: in every reachable state, commands interleaving statement by
\* statement, at most one row has is_default set
C2_AtMostOneDefault == Cardinality(Defaults(keys)) <= 1

\* C3: a successful add_ssh_key returns the id of the one new row, an id
\* no earlier row had; the new row carries the arguments and created_at =
\* updated_at = the time read at the call; with is_default the earlier rows are all there with the flag
\* cleared and the new row is the default; without it the earlier rows are
\* unchanged
C3_AddSshKey ==
    \A p \in Procs :
        Done(p, "add_ssh_key") /\ result[p].ok =>
            LET id == result[p].id
                new == SelectRow(keys, id)
            IN  /\ id \notin RowIds(pre[p].keys)
                /\ Cardinality(new) = 1
                /\ \A n \in new :
                     /\ n.is_default = req[p].is_default
                     /\ n.created_at = n.updated_at
                     /\ n.created_at = loc[p].now
                     /\ n.name = req[p].name
                     /\ n.path = req[p].path
                /\ req[p].is_default =>
                     /\ keys \ new =
                          {[r EXCEPT !.is_default = FALSE] : r \in pre[p].keys}
                     /\ \A r \in keys : r.is_default <=> r.id = id
                /\ ~req[p].is_default => keys \ new = pre[p].keys

\* a default add_ssh_key has succeeded on a table that had a default row
C3_Witness ==
    \E p \in Procs :
        /\ Done(p, "add_ssh_key") /\ result[p].ok /\ req[p].is_default
        /\ Defaults(pre[p].keys) # {}

\* C4: delete_ssh_key with delete_file = false leaves the files on disk as
\* they were at every step, and once it has succeeded the row is gone and
\* the other rows are as before
C4_DeleteKeepsFiles ==
    \A p \in Procs :
        Running(p, "delete_ssh_key") /\ ~req[p].delete_file =>
            /\ files = pre[p].files
            /\ pc[p] = "done" /\ result[p].ok =>
                 keys = {r \in pre[p].keys : r.id # req[p].id}

\* a row whose key file and .pub file are on disk was deleted with
\* delete_file = false
C4_Witness ==
    \E p \in Procs :
        /\ Done(p, "delete_ssh_key") /\ result[p].ok /\ ~req[p].delete_file
        /\ \E r \in pre[p].keys :
             r.id = req[p].id /\ {r.path, PubPath(r.path)} \subseteq files

\* C5: delete_ssh_key with delete_file = true on an existing id reads the
\* path while the row is there, deletes the row before it touches the file,
\* and when the file removal fails it returns an error with the row gone
\* and the files untouched
C5_DeleteOrder ==
    \A p \in Procs :
        /\ Running(p, "delete_ssh_key") /\ req[p].delete_file
        /\ req[p].id \in RowIds(pre[p].keys)
        => /\ pc[p] = "del_delete" =>
                /\ loc[p].has_path
                /\ loc[p].path \in SelectPath(pre[p].keys, req[p].id)
                /\ keys = pre[p].keys /\ files = pre[p].files
           /\ pc[p] = "del_rmfile" =>
                /\ req[p].id \notin RowIds(keys)
                /\ files = pre[p].files
           /\ pc[p] = "done" /\ loc[p].row_deleted /\ ~loc[p].file_removed =>
                /\ ~result[p].ok /\ result[p].err = "rmfile"
                /\ keys = {r \in pre[p].keys : r.id # req[p].id}
                /\ files = pre[p].files

\* the removal of a key file that is on disk has failed: the file is there
\* and no row names it
C5_Witness ==
    \E p \in Procs :
        /\ Done(p, "delete_ssh_key") /\ result[p].err = "rmfile"
        /\ loc[p].path \in files
        /\ \A r \in keys : r.path # loc[p].path

\* C6 as stated: generate_ssh_key adds a row exactly when ssh-keygen was
\* spawned and exited successfully; on success the one new row has the path
\* <home>/.ssh/<name>, which is returned, and is not the default, and the
\* other rows are unchanged; on error the table is unchanged
C6_GenerateAsStated ==
    \A p \in Procs :
        Done(p, "generate_ssh_key") =>
            /\ (keys # pre[p].keys) <=> loc[p].keygen_ok
            /\ result[p].ok =>
                 \E n \in keys \ pre[p].keys :
                    /\ keys = pre[p].keys \cup {n}
                    /\ n.path = SshDir \o <<"/">> \o req[p].name
                    /\ result[p].path = n.path
                    /\ ~n.is_default
            /\ ~result[p].ok => keys = pre[p].keys

\* C6 amended: generate_ssh_key adds a row exactly when it returns success,
\* which needs ssh-keygen to have succeeded; on success the one new row has
\* the path ssh_dir.join(name), <home>/.ssh/<name> for a relative name and
\* the name itself for an absolute one, which is returned, and is not the
\* default, and the other rows are unchanged; on error the table is unchanged
C6_Generate ==
    \A p \in Procs :
        Done(p, "generate_ssh_key") =>
            /\ (keys # pre[p].keys) <=> result[p].ok
            /\ result[p].ok =>
                 /\ loc[p].keygen_ok
                 /\ \E n \in keys \ pre[p].keys :
                      /\ keys = pre[p].keys \cup {n}
                      /\ n.name = req[p].name
                      /\ n.path = IF IsAbsolute(req[p].name)
                                  THEN req[p].name
                                  ELSE SshDir \o <<"/">> \o req[p].name
                      /\ result[p].path = n.path
                      /\ ~n.is_default
            /\ ~result[p].ok => keys = pre[p].keys

\* generate_ssh_key has succeeded with a relative name on a table that had
\* a default row
C6_Witness ==
    \E p \in Procs :
        /\ Done(p, "generate_ssh_key") /\ result[p].ok
        /\ ~IsAbsolute(req[p].name)
        /\ Defaults(pre[p].keys) # {}

\* C7: every SSH key operation is registered with the dispatch: no external
\* invocation of one of them is rejected as an unknown command
C7_EveryCommandRegistered ==
    \A p \in Procs :
        pc[p] = "done" /\ req[p].via = "ipc" /\ req[p].cmd \in SshKeyCommands
            => result[p].err # "command_not_found"

\* C8: in delete_ssh_key with delete_file = true the .pub removal is tried
\* only once the key file was removed, and whenever the row deletion and
\* the key file removal succeeded the command returns success, whatever
\* became of the .pub removal
C8_PubBestEffort ==
    \A p \in Procs :
        Running(p, "delete_ssh_key") /\ req[p].delete_file =>
            /\ pc[p] = "done" /\ loc[p].row_deleted /\ loc[p].file_removed
                 => result[p].ok
            /\ pc[p] = "del_rmpub" \/ loc[p].pub # "none" =>
                 /\ loc[p].row_deleted /\ loc[p].file_removed
                 /\ loc[p].path \in pre[p].files
                 /\ loc[p].path \notin files

\* the key file was removed, the .pub removal failed, the command succeeded
C8_Witness ==
    \E p \in Procs :
        /\ Done(p, "delete_ssh_key") /\ result[p].ok
        /\ loc[p].file_removed /\ loc[p].pub = "failed"

\* C9: when add_ssh_key returns an error the table is as it was before the
\* call
C9_AddErrorLeavesTable ==
    \A p \in Procs :
        Done(p, "add_ssh_key") /\ ~result[p].ok => keys = pre[p].keys

\* C10: delete_ssh_key on an id no row has: with delete_file = true it stops
\* at the path lookup and returns an error; with delete_file = false it
\* returns success once the DELETE has run; either way no row and no file
\* changes
C10_DeleteUnknownId ==
    \A p \in Procs :
        /\ Running(p, "delete_ssh_key")
        /\ req[p].id \notin RowIds(pre[p].keys)
        => /\ keys = pre[p].keys
           /\ files = pre[p].files
           /\ req[p].delete_file =>
                /\ pc[p] \in {"del_enter", "del_select", "done"}
                /\ ~loc[p].row_deleted
                /\ pc[p] = "done" =>
                     /\ ~result[p].ok
                     /\ result[p].err \in {"conn", "sql", "no_rows"}
           /\ ~req[p].delete_file /\ pc[p] = "done" =>
                /\ result[p].ok <=> loc[p].row_deleted
                /\ ~result[p].ok => result[p].err \in {"conn", "sql"}

\* the path lookup for an id no row has found nothing, with other rows in
\* the table and files on disk
C10_Witness ==
    \E p \in Procs :
        /\ Done(p, "delete_ssh_key") /\ req[p].delete_file
        /\ result[p].err = "no_rows"
        /\ \E r \in keys : r.path \in files

====
